---- MODULE Spec2Model ----
(***************************************************************************)
(* MICMIC desktop bridge (desktop/mic_bridge_app.py): the AudioRelay       *)
(* worker, the session controller of MicMicApp (start / stop / refresh    *)
(* workers, _safe_stop, on_close), choose_preferred and                   *)
(* AdbClient.get_connected_device.                                         *)
(*                                                                         *)
(* Processes: the Tk UI thread (process 0, runs on_close and the *_async   *)
(* request handlers), the controller worker threads spawned by the        *)
(* *_async handlers (processes 1..MaxWorkers) and the "audio-relay"        *)
(* threads spawned by AudioRelay.start (threads 1..MaxThreads).            *)
(***************************************************************************)
EXTENDS Integers, Sequences, FiniteSets, TLC

\* ------------------------------------------------------------------ bounds
MaxWorkers == 2   \* controller worker threads alive at the same time
MaxRelays  == 2   \* AudioRelay objects constructed in one run
MaxThreads == 2   \* audio-relay threads started in one run
MaxRequests == 3  \* start / stop / refresh requests accepted in one run
MaxDevices == 3   \* longest device list / connection list given to a function
MaxHints   == 2   \* longest hint list drawn, the program's two lists apart
MaxBytes   == 6   \* longest byte stream a producer sends

Workers == 1..MaxWorkers
Procs   == 0..MaxWorkers      \* 0 is the UI thread
Relays  == 1..MaxRelays
Threads == 1..MaxThreads
None    == 0                  \* Python's None for object references

\* ------------------------------------------------------- text and devices
\* str.lower() on the characters that occur in device names and hints.
LowerChar(c) ==
    CASE c = "A" -> "a" [] c = "B" -> "b" [] c = "C" -> "c" [] c = "E" -> "e"
      [] c = "I" -> "i" [] c = "L" -> "l" [] c = "M" -> "m" [] c = "O" -> "o"
      [] c = "R" -> "r" [] c = "S" -> "s" [] c = "V" -> "v"
      [] OTHER -> c

Lower(s) == [i \in 1..Len(s) |-> LowerChar(s[i])]

\* Python's `a in b` on strings: a is a contiguous substring of b.
Contains(b, a) ==
    \E k \in 0..(Len(b) - Len(a)) : \A i \in 1..Len(a) : b[k + i] = a[i]

TARGET_MIC_NAME == <<"M","I","C","M","I","C">>

PREFERRED_OUTPUT_HINTS ==
    << <<"V","i","r","t","u","a","l"," ","S","p","e","a","k","e","r","s"," ",
         "f","o","r"," ","A","u","d","i","o","R","e","l","a","y">>,
       <<"C","A","B","L","E"," ","I","n","p","u","t">>,
       <<"V","B","-","A","u","d","i","o">> >>

PREFERRED_CAPTURE_HINTS ==
    << TARGET_MIC_NAME,
       <<"V","i","r","t","u","a","l"," ","M","i","c"," ","f","o","r"," ",
         "A","u","d","i","o","R","e","l","a","y">>,
       <<"C","A","B","L","E"," ","O","u","t","p","u","t">>,
       <<"V","B","-","A","u","d","i","o">> >>

\* The devices of a hint that match, in list order.
HintMatches(devices, hint) ==
    { i \in 1..Len(devices) : Contains(Lower(devices[i].name), Lower(hint)) }

SetMin(S) == CHOOSE x \in S : \A y \in S : x <= y

\* Python's None where a device is expected.
NoDevice == [id |-> 0, name |-> <<>>]

\* choose_preferred with the two loops exchanged: the first device that
\* matches any hint.
DeviceMajorChoice(devices, hints) ==
    IF Len(devices) = 0 THEN NoDevice
    ELSE LET hit == UNION { HintMatches(devices, hints[h]) : h \in 1..Len(hints) }
         IN IF hit = {} THEN devices[1] ELSE devices[SetMin(hit)]

\* The inner loop of choose_preferred from position i on,
\* `for dev in devices: if hint_lower in dev.name.lower(): return dev`:
\* the position of the device returned, 0 when the loop ends without one.
RECURSIVE ScanDevices(_, _, _)
ScanDevices(devices, hint_lower, i) ==
    IF i > Len(devices) THEN 0
    ELSE IF Contains(Lower(devices[i].name), hint_lower) THEN i
    ELSE ScanDevices(devices, hint_lower, i + 1)

\* The outer loop without the `return devices[0]` that follows it.
RECURSIVE ScanHintsNoFallback(_, _, _)
ScanHintsNoFallback(devices, hints, h) ==
    IF h > Len(hints) THEN NoDevice
    ELSE LET i == ScanDevices(devices, Lower(hints[h]), 1)
         IN IF i # 0 THEN devices[i] ELSE ScanHintsNoFallback(devices, hints, h + 1)

\* The outer loop of choose_preferred from hint h on,
\* `for hint in hints: hint_lower = hint.lower(); ...`, and the
\* `return devices[0]` after it.
RECURSIVE ScanHints(_, _, _)
ScanHints(devices, hints, h) ==
    IF h > Len(hints) THEN devices[1]
    ELSE LET i == ScanDevices(devices, Lower(hints[h]), 1)
         IN IF i # 0 THEN devices[i] ELSE ScanHints(devices, hints, h + 1)

\* choose_preferred: `if not devices: return None`, then the loops.
choose_preferred(devices, hints) ==
    IF Len(devices) = 0 THEN NoDevice ELSE ScanHints(devices, hints, 1)

\* What the OS can answer to list_output_devices / list_capture_devices.
\* Capture lists are sorted by lower-case name, as list_capture_devices does.
DevSpeakers    == [id |-> 1, name |-> <<"S","p","e","a","k","e","r","s">>]
DevCableInput  == [id |-> 2, name |-> <<"C","A","B","L","E"," ","I","n","p","u","t">>]
DevCableOutput == [id |-> 3, name |-> <<"C","A","B","L","E"," ","O","u","t","p","u","t">>]
DevMicrophone  == [id |-> 4, name |-> <<"M","i","c","r","o","p","h","o","n","e">>]
DevMicMic      == [id |-> 5, name |-> TARGET_MIC_NAME]

OutputCatalogs  == { <<>>, <<DevSpeakers, DevCableInput>> }
CaptureCatalogs == { <<>>, <<DevCableOutput, DevMicrophone>>, <<DevCableOutput, DevMicMic>> }

\* ------------------------------------------------------------------- state
VARIABLES
    adb,             \* MicMicApp._adb is set (an AdbClient was constructed)
    relay,           \* MicMicApp._relay: a relay object, or None
    running,         \* MicMicApp._running
    busy,            \* MicMicApp._busy
    output_device,   \* MicMicApp.output_device
    capture_device,  \* MicMicApp.capture_device
    closed,          \* the window was destroyed (the process has exited)
    forward,         \* the adb reverse mapping tcp:28282 exists
    robj,            \* the AudioRelay objects: _stop, _thread, _server, _client, _stream
    rth,             \* the audio-relay threads: position in _run and the sockets they made
    nrelays,         \* AudioRelay objects constructed so far
    nthreads,        \* audio-relay threads started so far
    nreq,            \* requests accepted so far
    wk,              \* the UI thread and the controller worker threads
    call             \* the call of a module-level function under study, if any

vars == << adb, relay, running, busy, output_device, capture_device, closed,
           forward, robj, rth, nrelays, nthreads, nreq, wk, call >>

ctlvars == << adb, relay, running, busy, output_device, capture_device, closed, forward, nreq >>

\* AudioRelay.__init__
NewRelay == [stop |-> FALSE, thread |-> None, server |-> None, client |-> None, stream |-> None]

\* A thread slot before threading.Thread(...).start(); server / client / stream
\* are the OS objects this thread created: "open" while they hold their
\* resource, "none" before they exist and after they are closed; a server
\* socket is "unbound" (bind failed) or "listening" instead of "open".
\* status: the last event the thread delivered through status_cb: "none",
\* "waiting" (Aguardando audio), "active" (Stream ativo) or "error" (Erro no
\* relay).
NoThread == [obj |-> None, pc |-> "unborn", server |-> "none", client |-> "none",
             stream |-> "none", status |-> "none"]

\* A process that runs nothing.  rr / jt: the relay and the thread an ongoing
\* AudioRelay.stop() works on; td: the last bridge command _safe_stop has just
\* issued; stages: the steps of the try block of _start_worker done so far, in
\* order; failed: the try block of _start_worker has raised; exc: the function
\* is ending by an exception; disc: how the device discovery of the
\* _refresh_worker just run went ("ok", "raised", "empty"), until the check
\* that follows it; cause: the step of _start_worker that has just raised,
\* until _safe_stop begins.
IdleProc == [kind |-> "none", pc |-> "idle", rr |-> None, jt |-> None, td |-> "-",
             stages |-> <<>>, failed |-> FALSE, exc |-> FALSE, disc |-> "-", cause |-> "-"]

\* No function call under study.
NoCall == [fn |-> "none"]

InitCommon ==
    /\ adb = FALSE
    /\ running = FALSE
    /\ busy = FALSE
    /\ output_device = NoDevice
    /\ capture_device = NoDevice
    /\ closed = FALSE
    /\ rth = [t \in Threads |-> NoThread]
    /\ nthreads = 0
    /\ nreq = 0

\* MicMicApp.__init__
Init ==
    /\ InitCommon
    /\ call = NoCall
    /\ relay = None
    /\ forward = FALSE
    /\ robj = [o \in Relays |-> NewRelay]
    /\ nrelays = 0
    /\ wk = [p \in Procs |-> IdleProc]

\* ------------------------------------------------------------ AudioRelay
Obj(t) == rth[t].obj

\* A thread that has been started and has not returned from _run.
Alive(t) == rth[t].pc \notin {"unborn", "dead"}

\* except Exception: self.status_cb(f"Erro no relay: {exc}", "error"), and on
\* to the finally block.
Raise(t) == [rth EXCEPT ![t].pc = "r_finally", ![t].status = "error"]

\* AudioRelay.start on relay o: clear the stop flag, create and start a thread.
RelayStart(o) ==
    /\ nthreads < MaxThreads
    /\ nthreads' = nthreads + 1
    /\ rth' = [rth EXCEPT ![nthreads + 1] = [NoThread EXCEPT !.obj = o, !.pc = "r_bind"]]
    /\ robj' = [robj EXCEPT ![o].stop = FALSE, ![o].thread = nthreads + 1]

\* _run: socket(), setsockopt, bind, listen, settimeout, "Aguardando audio".
\* bind fails when the port is taken; with another listener of this process
\* on the port the outcome depends on the platform's SO_REUSEADDR.
RBind(t) ==
    /\ rth[t].pc = "r_bind"
    /\ \/ rth' = [rth EXCEPT ![t].server = "listening", ![t].pc = "r_accept",
                              ![t].status = "waiting"]
       \/ rth' = [Raise(t) EXCEPT ![t].server = "unbound"]
    /\ robj' = [robj EXCEPT ![Obj(t)].server = t]
    /\ UNCHANGED << ctlvars, nrelays, nthreads, wk >>
    /\ UNCHANGED call

\* One turn of the accept loop: `while not self._stop.is_set()`, then
\* self._server.accept().  A socket that stop() closed under a blocked accept
\* raises OSError; a timeout (one second) leaves everything as it is; a
\* producer reaches the port through the forwarded mapping.
RAccept(t) ==
    /\ rth[t].pc = "r_accept"
    /\ LET o == Obj(t)
           s == robj[o].server
       IN \/ /\ robj[o].stop
             /\ rth' = [rth EXCEPT ![t].pc = "r_accepted"]
             /\ UNCHANGED robj
          \/ /\ rth[s].server # "listening"
             /\ rth' = Raise(t)
             /\ UNCHANGED robj
          \/ /\ ~robj[o].stop
             /\ rth[s].server = "listening"
             /\ forward
             /\ rth' = [rth EXCEPT ![t].pc = "r_accepted", ![t].client = "open"]
             /\ robj' = [robj EXCEPT ![o].client = t]
    /\ UNCHANGED << ctlvars, nrelays, nthreads, wk >>
    /\ UNCHANGED call

\* The step after the accept loop without the test of the stop flag:
\* `if not self._client: return`.
RAcceptedFlagIgnored(t) ==
    /\ rth[t].pc = "r_accepted"
    /\ rth' = [rth EXCEPT ![t].pc =
                 IF robj[Obj(t)].client = None THEN "r_finally" ELSE "r_stream_open"]
    /\ UNCHANGED << ctlvars, robj, nrelays, nthreads, wk >>
    /\ UNCHANGED call

\* `if self._stop.is_set() or not self._client: return`
RAccepted(t) ==
    /\ rth[t].pc = "r_accepted"
    /\ rth' = [rth EXCEPT ![t].pc =
                 IF robj[Obj(t)].stop \/ robj[Obj(t)].client = None
                 THEN "r_finally" ELSE "r_stream_open"]
    /\ UNCHANGED << ctlvars, robj, nrelays, nthreads, wk >>
    /\ UNCHANGED call

\* self._client.settimeout, sd.RawOutputStream(...), self._stream.start(),
\* "Stream ativo".  The constructor or start() may raise; after a failed
\* start() the stream object is already assigned.
RStreamOpen(t) ==
    /\ rth[t].pc = "r_stream_open"
    /\ LET c == robj[Obj(t)].client IN
       \/ /\ rth' = Raise(t)
          /\ UNCHANGED robj
       \/ /\ rth[c].client = "open"
          /\ \/ rth' = [rth EXCEPT ![t].stream = "open", ![t].pc = "r_recv",
                                    ![t].status = "active"]
             \/ rth' = [Raise(t) EXCEPT ![t].stream = "open"]
          /\ robj' = [robj EXCEPT ![Obj(t)].stream = t]
    /\ UNCHANGED << ctlvars, nrelays, nthreads, wk >>
    /\ UNCHANGED call

\* One turn of the read loop: `while not self._stop.is_set()`, then
\* self._client.recv(4096): a chunk, b"" (the producer closed), OSError, or a
\* timeout, which leaves everything as it is.  On a socket that stop() shut
\* down and closed the call returns b"" or raises.
RRecv(t) ==
    /\ rth[t].pc = "r_recv"
    /\ LET o == Obj(t)
           c == robj[o].client
       IN \/ /\ robj[o].stop \/ rth[c].client # "open"
             /\ rth' = [rth EXCEPT ![t].pc = "r_finally"]
          \/ /\ ~robj[o].stop \/ rth[c].client # "open"
             /\ rth' = Raise(t)
          \/ /\ ~robj[o].stop
             /\ rth[c].client = "open"
             /\ \E next \in {"r_write", "r_finally"} : rth' = [rth EXCEPT ![t].pc = next]
    /\ UNCHANGED << ctlvars, robj, nrelays, nthreads, wk >>
    /\ UNCHANGED call

\* self._stream.write(audioop.tostereo(chunk, 2, 1, 1))
RWrite(t) ==
    /\ rth[t].pc = "r_write"
    /\ \/ rth' = [rth EXCEPT ![t].pc = "r_recv"]
       \/ rth' = Raise(t)
    /\ UNCHANGED << ctlvars, robj, nrelays, nthreads, wk >>
    /\ UNCHANGED call

\* The object a field of a relay refers to, closed: field f of the thread
\* that created it.
CloseRef(th, ref, f) ==
    IF ref = None THEN th
    ELSE [th EXCEPT ![ref] = [@ EXCEPT ![f] = "none"]]

\* finally: stop and close the stream, close the client, close the server,
\* each `if self._x:`; the thread ends.
RFinally(t) ==
    /\ rth[t].pc = "r_finally"
    /\ LET o  == Obj(t)
           t1 == [rth EXCEPT ![t].pc = "dead"]
           t2 == CloseRef(CloseRef(t1, robj[o].client, "client"), robj[o].server, "server")
       IN rth' = CloseRef(t2, robj[o].stream, "stream")
    /\ UNCHANGED << ctlvars, robj, nrelays, nthreads, wk >>
    /\ UNCHANGED call

RelayThread(t) ==
    \/ RBind(t) \/ RAccept(t) \/ RAccepted(t) \/ RStreamOpen(t)
    \/ RRecv(t) \/ RWrite(t) \/ RFinally(t)

\* A call of the worker that no timeout of the code bounds: a thread inside
\* it can outlast join(timeout=3).  accept and recv return within a second.
JoinMayTimeOut(t) == rth[t].pc \in {"r_stream_open", "r_write"}

\* `if sock:` of AudioRelay.stop
SockGuard(ref) == ref # None

\* AudioRelay.stop without its `if self._thread:`: the join is called on
\* whatever the field holds.
JoinUnguarded(ref) == TRUE

\* `if self._thread:` of AudioRelay.stop
ThreadGuard(ref) == ref # None

\* Process p ends the function it runs by an exception that nothing catches;
\* _start_worker and _stop_worker still run their `finally`, any other caller
\* is left with the exception.
Escapes(p) ==
    [wk EXCEPT ![p].pc = IF wk[p].kind \in {"start", "stop"} THEN "w_finally" ELSE "raised",
               ![p].exc = TRUE, ![p].rr = None, ![p].jt = None, ![p].td = "-"]

\* Where p continues when the AudioRelay.stop() it called returns.
AfterRelayStop(p) == IF wk[p].kind = "client" THEN "c_idle" ELSE "ss_clear"

\* AudioRelay.stop called by p on relay o, up to the join: set the stop flag,
\* shut down and close the client and the server socket, read self._thread.
RelayStopBegin(p, o) ==
    IF \E r \in {robj[o].client, robj[o].server} : SockGuard(r) /\ r = None
    THEN \* None.shutdown: AttributeError, which `except OSError` lets through
         /\ wk' = Escapes(p)
         /\ robj' = [robj EXCEPT ![o].stop = TRUE]
         /\ UNCHANGED rth
    ELSE /\ robj' = [robj EXCEPT ![o].stop = TRUE]
         /\ rth' = CloseRef(CloseRef(rth, IF SockGuard(robj[o].client) THEN robj[o].client ELSE None, "client"),
                            IF SockGuard(robj[o].server) THEN robj[o].server ELSE None, "server")
         /\ IF ThreadGuard(robj[o].thread)
            THEN IF robj[o].thread = None
                 THEN wk' = Escapes(p)       \* None.join
                 ELSE wk' = [wk EXCEPT ![p].pc = "rs_join", ![p].rr = o, ![p].jt = robj[o].thread,
                                       ![p].td = "-"]
            ELSE wk' = [wk EXCEPT ![p].pc = AfterRelayStop(p), ![p].rr = o, ![p].jt = None,
                                  ![p].td = "-"]

\* AudioRelay.stop, the join: self._thread.join(timeout=3) returns when the
\* thread has ended or the timeout expires; then self._thread = None.
RelayStopJoin(p) ==
    /\ wk[p].pc = "rs_join"
    /\ \/ rth[wk[p].jt].pc = "dead"
       \/ JoinMayTimeOut(wk[p].jt)
    /\ robj' = [robj EXCEPT ![wk[p].rr].thread = None]
    /\ wk' = [wk EXCEPT ![p].pc = AfterRelayStop(p), ![p].jt = None]
    /\ UNCHANGED << ctlvars, rth, nrelays, nthreads >>
    /\ UNCHANGED call

\* ------------------------------------------------ MicMicApp: requests
UiIdle == ~closed /\ wk[0].pc = "idle"

FreeWorkers == { w \in Workers : wk[w].kind = "none" }

\* The positions of _start_worker before it has constructed its AudioRelay.
PreRelay == {"s_lock", "rf_body", "rf_finally", "s_check", "s_launch"}

Pending == { w \in Workers : wk[w].kind = "start" /\ wk[w].pc \in PreRelay }

Spawn(kind, pc) ==
    /\ FreeWorkers # {}
    /\ nreq < MaxRequests
    /\ nreq' = nreq + 1
    /\ wk' = [wk EXCEPT ![SetMin(FreeWorkers)] = [IdleProc EXCEPT !.kind = kind, !.pc = pc]]
    /\ UNCHANGED << adb, relay, running, busy, output_device, capture_device, closed, forward,
                    robj, rth, nrelays, nthreads >>
    /\ UNCHANGED call

\* `if self._busy: return` of start_async, stop_async and refresh_async
BusyGuard == ~busy

\* start_async: a thread running _start_worker
start_async ==
    /\ UiIdle
    /\ BusyGuard
    /\ nrelays + Cardinality(Pending) < MaxRelays
    /\ Spawn("start", "s_lock")

\* stop_async: a thread running _stop_worker
stop_async ==
    /\ UiIdle
    /\ BusyGuard
    /\ Spawn("stop", "st_busy")

\* refresh_async: a thread running _refresh_worker
refresh_async ==
    /\ UiIdle
    /\ BusyGuard
    /\ Spawn("refresh", "rf_busy")

Goto(p, pc) == [wk EXCEPT ![p].pc = pc]

\* The thread of worker w ends.
Ends(w) == [wk EXCEPT ![w] = IdleProc]

\* ------------------------------------------------ MicMicApp._safe_stop
\* Where p continues when _safe_stop returns.
AfterSafeStop(p) == IF wk[p].kind = "close" THEN "cl_destroy" ELSE "w_revert"

\* The bridge commands _safe_stop issues, as the last one issued:
\* `adb = self._adb or AdbClient()` raises without an adb executable
\* ("skipped"); each command runs with check=False, so a nonzero exit is
\* ignored, while a timeout (subprocess.TimeoutExpired) or a vanished
\* executable raises and `except Exception: pass` skips the commands after it.
\* removed: whether `reverse --remove` was issued and succeeded.
BridgeOutcomes ==
    { [last |-> "skipped", removed |-> FALSE],
      [last |-> "stop",    removed |-> FALSE],
      [last |-> "remove",  removed |-> FALSE],
      [last |-> "force",   removed |-> FALSE],
      [last |-> "force",   removed |-> TRUE] }

\* try: remote "stop", reverse --remove, force-stop; except Exception: pass
SafeStopBridge(p) ==
    /\ wk[p].pc = "ss_bridge"
    /\ \E out \in BridgeOutcomes :
         /\ out.last = "skipped" => ~adb
         /\ forward' = IF out.removed THEN FALSE ELSE forward
         /\ wk' = [wk EXCEPT ![p].pc = "ss_relay", ![p].td = out.last, ![p].cause = "-"]
    /\ UNCHANGED << adb, relay, running, busy, output_device, capture_device, closed,
                    robj, rth, nrelays, nthreads, nreq >>
    /\ UNCHANGED call

\* `if self._relay:`
SafeStopRelay(p) ==
    /\ wk[p].pc = "ss_relay"
    /\ wk' = [wk EXCEPT ![p].pc = IF relay = None THEN AfterSafeStop(p) ELSE "ss_call",
                        ![p].td = "-"]
    /\ UNCHANGED << ctlvars, robj, rth, nrelays, nthreads >>
    /\ UNCHANGED call

\* `self._relay.stop()`: the attribute is read again; on None the call raises
\* AttributeError, outside the try block of _safe_stop.
SafeStopCall(p) ==
    /\ wk[p].pc = "ss_call"
    /\ IF relay = None
       THEN /\ wk' = Escapes(p)
            /\ UNCHANGED << robj, rth >>
       ELSE RelayStopBegin(p, relay)
    /\ UNCHANGED << ctlvars, nrelays, nthreads >>
    /\ UNCHANGED call

\* `self._relay = None`
SafeStopClear(p) ==
    /\ wk[p].pc = "ss_clear"
    /\ relay' = None
    /\ wk' = [wk EXCEPT ![p].pc = AfterSafeStop(p), ![p].rr = None]
    /\ UNCHANGED << adb, running, busy, output_device, capture_device, closed, forward,
                    robj, rth, nrelays, nthreads, nreq >>
    /\ UNCHANGED call

safe_stop(p) ==
    \/ SafeStopBridge(p) \/ SafeStopRelay(p) \/ SafeStopCall(p)
    \/ RelayStopJoin(p) \/ SafeStopClear(p)

\* -------------------------------------------- MicMicApp._refresh_worker
\* Run by a refresh thread, and inline by _start_worker.  self._set_busy(True)
RefreshBusy(w) ==
    /\ wk[w].pc = "rf_busy"
    /\ busy' = TRUE
    /\ wk' = Goto(w, "rf_body")
    /\ UNCHANGED << adb, relay, running, output_device, capture_device, closed, forward,
                    robj, rth, nrelays, nthreads, nreq >>
    /\ UNCHANGED call

\* The try block: list_output_devices, list_capture_devices, choose_preferred
\* twice, the two "Nao achei" checks, `self._adb = AdbClient()`,
\* get_connected_device.  A listing that raises leaves the attributes as they
\* were; an empty list stores None and raises; AdbClient() raises without an
\* adb executable.  The exception is logged, not re-raised.
RefreshBody(w) ==
    /\ wk[w].pc = "rf_body"
    /\ \/ /\ UNCHANGED << output_device, capture_device, adb >>
          /\ wk' = [wk EXCEPT ![w].pc = "rf_finally", ![w].stages = Append(@, "resolve"),
                              ![w].disc = "raised"]
       \/ \E outs \in OutputCatalogs, caps \in CaptureCatalogs :
            LET o == choose_preferred(outs, PREFERRED_OUTPUT_HINTS)
                c == choose_preferred(caps, PREFERRED_CAPTURE_HINTS)
            IN /\ output_device' = o
               /\ capture_device' = c
               /\ IF o = NoDevice \/ c = NoDevice THEN adb' = adb ELSE adb' \in {adb, TRUE}
               /\ wk' = [wk EXCEPT ![w].pc = "rf_finally", ![w].stages = Append(@, "resolve"),
                                   ![w].disc = IF Len(outs) = 0 \/ Len(caps) = 0
                                               THEN "empty" ELSE "ok"]
    /\ UNCHANGED << relay, running, busy, closed, forward, robj, rth, nrelays, nthreads, nreq >>
    /\ UNCHANGED call

\* finally: self._set_busy(False)
RefreshFinally(w) ==
    /\ wk[w].pc = "rf_finally"
    /\ busy' = FALSE
    /\ wk' = IF wk[w].kind = "start" THEN Goto(w, "s_check") ELSE Ends(w)
    /\ UNCHANGED << adb, relay, running, output_device, capture_device, closed, forward,
                    robj, rth, nrelays, nthreads, nreq >>
    /\ UNCHANGED call

refresh_worker(w) == RefreshBusy(w) \/ RefreshBody(w) \/ RefreshFinally(w)

\* ---------------------------------------------- MicMicApp._start_worker
\* A step of the try block raised: `except Exception` logs and calls _safe_stop.
Failed(w) ==
    [wk EXCEPT ![w].pc = "ss_bridge", ![w].stages = <<>>, ![w].failed = TRUE, ![w].disc = "-"]

\* The same, the step that raised named.
FailedBy(w, step) == [Failed(w) EXCEPT ![w].cause = step]

\* with self._lock: if self._running: return; self._running = True.  Then
\* self._set_busy(True), and again at the head of the self._refresh_worker()
\* that the try block calls first.
StartLock(w) ==
    /\ wk[w].pc = "s_lock"
    /\ running' = TRUE
    /\ busy' = IF running THEN busy ELSE TRUE
    /\ wk' = IF running THEN Ends(w) ELSE Goto(w, "rf_body")
    /\ UNCHANGED << adb, relay, output_device, capture_device, closed, forward,
                    robj, rth, nrelays, nthreads, nreq >>
    /\ UNCHANGED call

\* What the list read again after a successful rename can make of the capture
\* device c: the choice among the new list, or c when that list is empty.
Reselected(c) ==
    { IF choose_preferred(caps, PREFERRED_CAPTURE_HINTS) # NoDevice
      THEN choose_preferred(caps, PREFERRED_CAPTURE_HINTS) ELSE c : caps \in CaptureCatalogs }

\* `if not self._adb or not self.output_device or not self.capture_device`
\* ("env"), then get_connected_device, is_package_installed, install_apk
\* (provisioning, "bridge"), then the rename of the capture device, whose
\* failure is a return value (after a successful one the list is read again,
\* which may raise, "relist", and the choice stored), then
\* set_default_capture_device ("default") and the route test ("route"): each
\* of them raises when it fails, the rename excepted.
StartCheck(w) ==
    /\ wk[w].pc = "s_check"
    /\ IF ~(adb /\ output_device # NoDevice /\ capture_device # NoDevice)
       THEN /\ wk' = FailedBy(w, "env")
            /\ UNCHANGED capture_device
       ELSE \/ /\ wk' = FailedBy(w, "bridge")
               /\ UNCHANGED capture_device
            \/ /\ ~Contains(Lower(capture_device.name), Lower(TARGET_MIC_NAME))
               /\ wk' = FailedBy(w, "relist")
               /\ UNCHANGED capture_device
            \/ /\ \/ UNCHANGED capture_device
                  \/ /\ ~Contains(Lower(capture_device.name), Lower(TARGET_MIC_NAME))
                     /\ capture_device' \in Reselected(capture_device)
               /\ \/ wk' = [wk EXCEPT ![w].pc = "s_launch", ![w].disc = "-",
                                      ![w].stages = Append(@, "provision")]
                  \/ \E step \in {"default", "route"} : wk' = FailedBy(w, step)
    /\ UNCHANGED << adb, relay, running, busy, output_device, closed, forward,
                    robj, rth, nrelays, nthreads, nreq >>
    /\ UNCHANGED call

\* _start_worker with the bridge told to start ahead of the relay: the port
\* opened and the remote "start" sent where the relay is to be constructed.
SendBeforeRelay(w) ==
    /\ wk[w].pc = "s_launch"
    /\ forward' = TRUE
    /\ wk' = [wk EXCEPT ![w].pc = "s_forward", ![w].stages = Append(@, "send")]
    /\ UNCHANGED << adb, relay, running, busy, output_device, capture_device, closed,
                    robj, rth, nrelays, nthreads, nreq >>
    /\ UNCHANGED call

\* self._relay = AudioRelay(self.output_device.index, ...); self._relay.start()
StartLaunch(w) ==
    /\ wk[w].pc = "s_launch"
    /\ IF output_device = NoDevice
       THEN /\ wk' = Failed(w)
            /\ UNCHANGED << relay, robj, rth, nrelays, nthreads >>
       ELSE /\ nrelays < MaxRelays
            /\ nrelays' = nrelays + 1
            /\ relay' = nrelays + 1
            /\ RelayStart(nrelays + 1)
            /\ wk' = [wk EXCEPT ![w].pc = "s_forward", ![w].stages = Append(@, "relay")]
    /\ UNCHANGED << adb, running, busy, output_device, capture_device, closed, forward, nreq >>
    /\ UNCHANGED call

\* self._adb.run(["reverse", "tcp:28282", "tcp:28282"]), then
\* self._adb.run([... "--es", "command", "start"]), then status and log only
StartForward(w) ==
    /\ wk[w].pc = "s_forward"
    /\ \/ /\ wk' = Failed(w)
          /\ UNCHANGED forward
       \/ /\ forward' = TRUE
          /\ \/ wk' = Failed(w)
             \/ wk' = [wk EXCEPT ![w].pc = "w_finally", ![w].stages = Append(@, "send")]
    /\ UNCHANGED << adb, relay, running, busy, output_device, capture_device, closed,
                    robj, rth, nrelays, nthreads, nreq >>
    /\ UNCHANGED call

\* with self._lock: self._running = False, after _safe_stop: in the except
\* block of _start_worker, in the try block of _stop_worker
WorkerRevert(w) ==
    /\ wk[w].pc = "w_revert"
    /\ running' = FALSE
    /\ wk' = Goto(w, "w_finally")
    /\ UNCHANGED << adb, relay, busy, output_device, capture_device, closed, forward,
                    robj, rth, nrelays, nthreads, nreq >>
    /\ UNCHANGED call

\* finally: self._set_busy(False), of _start_worker and of _stop_worker; the
\* thread ends.
WorkerFinally(w) ==
    /\ wk[w].pc = "w_finally"
    /\ busy' = FALSE
    /\ wk' = Ends(w)
    /\ UNCHANGED << adb, relay, running, output_device, capture_device, closed, forward,
                    robj, rth, nrelays, nthreads, nreq >>
    /\ UNCHANGED call

start_worker(w) ==
    \/ StartLock(w) \/ StartCheck(w) \/ StartLaunch(w) \/ StartForward(w)
    \/ WorkerRevert(w) \/ WorkerFinally(w)

\* ----------------------------------------------- MicMicApp._stop_worker
\* self._set_busy(True); the call of self._safe_stop() follows
StopBusy(w) ==
    /\ wk[w].pc = "st_busy"
    /\ busy' = TRUE
    /\ wk' = Goto(w, "ss_bridge")
    /\ UNCHANGED << adb, relay, running, output_device, capture_device, closed, forward,
                    robj, rth, nrelays, nthreads, nreq >>
    /\ UNCHANGED call

stop_worker(w) == StopBusy(w)

\* --------------------------------------------------- MicMicApp.on_close
\* self.destroy(): the main loop returns and the process ends with the
\* window; its daemon threads and its objects are gone and the OS closes what
\* they held.  The port mapping of the bridge is not the process's and stays.
Destroy ==
    /\ closed' = TRUE
    /\ adb' = FALSE
    /\ relay' = None
    /\ running' = FALSE
    /\ busy' = FALSE
    /\ output_device' = NoDevice
    /\ capture_device' = NoDevice
    /\ robj' = [o \in Relays |-> NewRelay]
    /\ rth' = [t \in Threads |-> NoThread]
    /\ nrelays' = 0
    /\ nthreads' = 0
    /\ nreq' = 0
    /\ wk' = [p \in Procs |-> IdleProc]
    /\ UNCHANGED forward
    /\ UNCHANGED call

\* on_close on the UI thread, the window closed while no worker is at work:
\* `if self._running: self._safe_stop()`, then self.destroy().
on_close ==
    /\ UiIdle
    /\ FreeWorkers = Workers
    /\ IF running
       THEN /\ wk' = [wk EXCEPT ![0] = [IdleProc EXCEPT !.kind = "close", !.pc = "ss_bridge"]]
            /\ UNCHANGED << adb, relay, running, busy, output_device, capture_device, closed,
                            forward, robj, rth, nrelays, nthreads, nreq >>
       ELSE Destroy
    /\ UNCHANGED call

\* self.destroy() after _safe_stop returned
CloseDestroy ==
    /\ wk[0].pc = "cl_destroy"
    /\ Destroy

\* ------------------------------------------------------------ the program
Next ==
    \/ start_async
    \/ stop_async
    \/ refresh_async
    \/ on_close
    \/ CloseDestroy
    \/ \E p \in Procs : safe_stop(p)
    \/ \E w \in Workers : refresh_worker(w)
    \/ \E w \in Workers : start_worker(w)
    \/ \E w \in Workers : stop_worker(w)
    \/ \E t \in Threads : RelayThread(t)

Spec == Init /\ [][Next]_vars

\* ------------------------------------------- a client of one AudioRelay
\* One AudioRelay used directly: its client (process 1) calls start() and
\* stop() in any order, one call after the other.
InitRelay ==
    /\ InitCommon
    /\ call = NoCall
    /\ relay = None
    /\ forward = TRUE          \* producers can reach the port
    /\ robj = [o \in Relays |-> NewRelay]
    /\ nrelays = 1
    /\ wk = [p \in Procs |-> IF p = 1 THEN [IdleProc EXCEPT !.kind = "client", !.pc = "c_idle"]
                             ELSE IdleProc]

ClientStart ==
    /\ wk[1].pc = "c_idle"
    /\ RelayStart(1)
    /\ UNCHANGED << ctlvars, nrelays, wk >>
    /\ UNCHANGED call

ClientStop ==
    /\ wk[1].pc = "c_idle"
    /\ RelayStopBegin(1, 1)
    /\ UNCHANGED << ctlvars, nrelays, nthreads >>
    /\ UNCHANGED call

NextRelay ==
    \/ ClientStart
    \/ ClientStop
    \/ RelayStopJoin(1)
    \/ \E t \in Threads : RelayThread(t)

SpecRelay == InitRelay /\ [][NextRelay]_vars

\* The same with the scheduler's guarantee: a relay thread that can take a
\* step takes one (accept, recv and the stream calls return or time out).
SpecRelayLive == SpecRelay /\ \A t \in Threads : WF_vars(RelayThread(t))

\* ------------------------------------- the module-level functions alone
\* choose_preferred and AdbClient.get_connected_device called on their own,
\* on any list within the bounds.
SeqsUpTo(S, n) == { <<>> } \cup UNION { [1..k -> S] : k \in 1..n }

\* A device whose name has the letters of "CABLE Output" in another case.
DevCableLower ==
    [id |-> 6, name |-> <<"c","a","b","l","e"," ","o","u","t","p","u","t">>]

DeviceUniverse ==
    { DevSpeakers, DevCableInput, DevCableOutput, DevMicrophone, DevMicMic, DevCableLower }

HintTexts ==
    { TARGET_MIC_NAME,
      <<"C","A","B","L","E"," ","O","u","t","p","u","t">>,
      <<"c","a","b","l","e">>,
      <<"M","i","c">> }

HintLists == SeqsUpTo(HintTexts, MaxHints) \cup { PREFERRED_OUTPUT_HINTS, PREFERRED_CAPTURE_HINTS }

\* AdbDevice.state as `adb devices -l` prints it.
ConnStates == { "device", "unauthorized", "offline", "recovery" }

\* A parsed connection list: the serial of an entry is its position.
ConnLists ==
    { [i \in 1..Len(states) |-> [serial |-> i, state |-> states[i]]] :
        states \in SeqsUpTo(ConnStates, MaxDevices) }

NoConn == [serial |-> 0, state |-> "-"]

\* get_connected_device with the tests for unauthorized and offline exchanged.
OfflineBeforeUnauthorized(devices) ==
    IF \E i \in 1..Len(devices) : devices[i].state = "device"
    THEN [dev |-> devices[SetMin({ i \in 1..Len(devices) : devices[i].state = "device" })],
          error |-> "-"]
    ELSE IF \E i \in 1..Len(devices) : devices[i].state = "offline"
    THEN [dev |-> NoConn, error |-> "offline"]
    ELSE IF \E i \in 1..Len(devices) : devices[i].state = "unauthorized"
    THEN [dev |-> NoConn, error |-> "unauthorized"]
    ELSE [dev |-> NoConn, error |-> "absent"]

\* `for dev in devices: if dev.state == "device": return dev` from position
\* i on: the position of the entry returned, 0 when the loop ends without one.
RECURSIVE ScanConnected(_, _)
ScanConnected(devices, i) ==
    IF i > Len(devices) THEN 0
    ELSE IF devices[i].state = "device" THEN i
    ELSE ScanConnected(devices, i + 1)

\* AdbClient.get_connected_device on the parsed list: the entry returned
\* (error "-"), or the MicBridgeError raised: "unauthorized" (Celular nao
\* autorizado), "offline" (Celular offline no ADB), "absent" (Nenhum celular
\* conectado no ADB).
get_connected_device(devices) ==
    LET i == ScanConnected(devices, 1)
    IN IF i # 0 THEN [dev |-> devices[i], error |-> "-"]
       ELSE IF \E k \in 1..Len(devices) : devices[k].state = "unauthorized"
       THEN [dev |-> NoConn, error |-> "unauthorized"]
       ELSE IF \E k \in 1..Len(devices) : devices[k].state = "offline"
       THEN [dev |-> NoConn, error |-> "offline"]
       ELSE [dev |-> NoConn, error |-> "absent"]

\* The calls that can be made, not yet made.
Calls ==
    { [fn |-> "choose_preferred", devices |-> d, hints |-> h, done |-> FALSE, result |-> NoDevice] :
        d \in SeqsUpTo(DeviceUniverse, MaxDevices), h \in HintLists }
    \cup
    { [fn |-> "get_connected_device", devices |-> d, done |-> FALSE,
       result |-> [dev |-> NoConn, error |-> "-"]] : d \in ConnLists }

InitPure ==
    /\ InitCommon
    /\ call \in Calls
    /\ relay = None
    /\ forward = FALSE
    /\ robj = [o \in Relays |-> NewRelay]
    /\ nrelays = 0
    /\ wk = [p \in Procs |-> IdleProc]

CallChoosePreferred ==
    /\ call.fn = "choose_preferred"
    /\ ~call.done
    /\ call' = [call EXCEPT !.done = TRUE,
                            !.result = choose_preferred(call.devices, call.hints)]
    /\ UNCHANGED << ctlvars, robj, rth, nrelays, nthreads, wk >>

CallGetConnectedDevice ==
    /\ call.fn = "get_connected_device"
    /\ ~call.done
    /\ call' = [call EXCEPT !.done = TRUE, !.result = get_connected_device(call.devices)]
    /\ UNCHANGED << ctlvars, robj, rth, nrelays, nthreads, wk >>

NextPure ==
    \/ CallChoosePreferred
    \/ CallGetConnectedDevice

SpecPure == InitPure /\ [][NextPure]_vars

\* ------------------------------------------ the read loop and its bytes
\* The read loop of AudioRelay._run with the data it moves: a producer sends
\* a byte stream, recv returns it in chunks cut at any positions, and each
\* chunk goes through the odd-byte drop and audioop.tostereo to the stream.
Bytes == { 0, 1, 255 }

Streams == SeqsUpTo(Bytes, MaxBytes)

\* A signed 16-bit little-endian sample read from two bytes, as audioop does.
Sample16(lo, hi) ==
    LET u == lo + 256 * hi IN IF u >= 32768 THEN u - 65536 ELSE u

\* audioop's clipping of a scaled sample to 16 bits.
Clamp16(v) == IF v > 32767 THEN 32767 ELSE IF v < -32768 THEN -32768 ELSE v

\* The two bytes of a signed 16-bit sample, little-endian.
Encode16(v) == LET u == v % 65536 IN << u % 256, u \div 256 >>

\* audioop.tostereo(fragment, 2, lfactor, rfactor) from byte i on: each mono
\* sample scaled by lfactor and by rfactor, the two results written side by
\* side.
RECURSIVE StereoFrom(_, _, _, _)
StereoFrom(fragment, lfactor, rfactor, i) ==
    IF i + 1 > Len(fragment) THEN << >>
    ELSE LET v == Sample16(fragment[i], fragment[i + 1])
         IN Encode16(Clamp16(v * lfactor)) \o Encode16(Clamp16(v * rfactor))
              \o StereoFrom(fragment, lfactor, rfactor, i + 2)

\* tostereo with the right channel silent.
LeftOnly(fragment, lfactor, rfactor) ==
    [raised |-> Len(fragment) % 2 # 0, data |-> StereoFrom(fragment, 1, 0, 1)]

\* audioop.tostereo(fragment, 2, lfactor, rfactor): audioop.error ("not a
\* whole number of frames") on a fragment of odd length.
tostereo(fragment, lfactor, rfactor) ==
    IF Len(fragment) % 2 # 0 THEN [raised |-> TRUE, data |-> << >>]
    ELSE [raised |-> FALSE, data |-> StereoFrom(fragment, lfactor, rfactor, 1)]

\* The read loop without `if len(chunk) % 2: chunk = chunk[:-1]`.
KeepOddByte(chunk) == chunk

\* `if len(chunk) % 2: chunk = chunk[:-1]`
DropOddByte(chunk) ==
    IF Len(chunk) % 2 # 0 THEN SubSeq(chunk, 1, Len(chunk) - 1) ELSE chunk

\* What one turn of the read loop does with the chunk recv returned, which
\* began at offset `at` of the producer's stream: `if chunk:
\* self._stream.write(audioop.tostereo(chunk, 2, 1, 1))`.
Turn(chunk, at) ==
    LET kept == DropOddByte(chunk)
        out  == tostereo(kept, 1, 1)
    IN [chunk |-> chunk, at |-> at,
        wrote |-> kept # << >> /\ ~out.raised,
        raised |-> kept # << >> /\ out.raised,
        data |-> IF kept # << >> THEN out.data ELSE << >>]

\* The read loops that can be run: a stream, and the positions at which TCP
\* cuts it into the chunks recv returns.
ReadLoops ==
    { [fn |-> "read_loop", stream |-> s, cuts |-> c, off |-> 0, writes |-> << >>] :
        s \in Streams, c \in SUBSET (1..(MaxBytes - 1)) }

InitStream ==
    /\ InitCommon
    /\ call \in { r \in ReadLoops : \A p \in r.cuts : p < Len(r.stream) }
    /\ relay = None
    /\ forward = TRUE
    /\ robj = [o \in Relays |-> NewRelay]
    /\ nrelays = 0
    /\ wk = [p \in Procs |-> IdleProc]

\* `chunk = self._client.recv(4096)` returns the bytes up to the next cut,
\* then the rest of the turn.
ReadChunk ==
    /\ call.fn = "read_loop"
    /\ call.off < Len(call.stream)
    /\ LET end   == SetMin({ p \in call.cuts \cup { Len(call.stream) } : p > call.off })
           chunk == SubSeq(call.stream, call.off + 1, end)
       IN call' = [call EXCEPT !.off = end,
                               !.writes = Append(@, Turn(chunk, call.off))]
    /\ UNCHANGED << ctlvars, robj, rth, nrelays, nthreads, wk >>

NextStream == ReadChunk

SpecStream == InitStream /\ [][NextStream]_vars

\* ================================================================ claims
\* Worker w is inside the body of _start_worker or _stop_worker: it has set
\* busy and has not yet run its final _set_busy(False).
InBody(w) ==
    /\ wk[w].kind \in {"start", "stop"}
    /\ wk[w].pc \notin {"idle", "s_lock", "st_busy"}

\* C1: the bodies of _start_worker and _stop_worker never overlap in time,
\* whatever the interleaving of start_async, stop_async and refresh_async:
\* at most one worker is inside such a body.
C1_BodiesNeverOverlap ==
    \A v, w \in Workers : (InBody(v) /\ InBody(w)) => v = w

\* Relay o has a worker thread that is listening or streaming.
LiveRelay(o) ==
    \E t \in Threads :
       /\ Obj(t) = o
       /\ rth[t].pc \in {"r_accept", "r_accepted", "r_stream_open", "r_recv", "r_write"}

\* C2: in every reachable state at most one AudioRelay is live, and a live
\* relay is never left behind by a _relay that refers to a newer one.
C2_AtMostOneLiveRelay ==
    /\ Cardinality({ o \in Relays : LiveRelay(o) }) <= 1
    /\ \A o \in Relays : LiveRelay(o) => relay \in {o, None}

\* C3: when a _start_worker whose try block raised reaches its final
\* _set_busy(False), the running flag is False, no relay is referenced, no
\* relay thread is alive and no listening socket is left.  Stated for a
\* start() that is the only request made, so that nothing else has acted.
C3_FailedStartLeavesNothing ==
    \A w \in Workers :
       (wk[w].kind = "start" /\ wk[w].failed /\ wk[w].pc = "w_finally" /\ nreq = 1)
       => /\ ~running
          /\ relay = None
          /\ \A t \in Threads : ~Alive(t) /\ rth[t].server = "none"

\* Nothing of the program is at work: no worker thread, no window callback,
\* no relay thread.
AtRest ==
    /\ \A p \in Procs : wk[p].pc = "idle"
    /\ \A t \in Threads : ~Alive(t)

\* C4: the forwarded port never stays open with no relay streaming: once
\* every worker and every relay thread has ended, whether by stop(), a failed
\* start(), a producer that disconnected or a relay error, the mapping that
\* start() established is gone.
C4_ForwardReleasedAtRest == AtRest => ~forward

IsPrefix(s, t) ==
    /\ Len(s) <= Len(t)
    /\ \A i \in 1..Len(s) : s[i] = t[i]

\* C5: within one _start_worker the steps happen in the order device
\* resolution, provisioning, AudioRelay.start(), remote "start" command: the
\* steps done so far are always an initial part of that list, so the remote
\* "start" is never sent unless this start() has started a relay.
C5_StartStepsInOrder ==
    \A w \in Workers : IsPrefix(wk[w].stages, << "resolve", "provision", "relay", "send" >>)

\* C5 witness: a start() that has gone through all four steps.
C5_Witness ==
    \E w \in Workers :
       /\ wk[w].kind = "start"
       /\ wk[w].stages = << "resolve", "provision", "relay", "send" >>

\* Thread t holds a socket or a stream it created.
Open(t) ==
    \/ rth[t].server \in {"unbound", "listening"}
    \/ rth[t].client = "open"
    \/ rth[t].stream = "open"

\* Relay o holds something: a thread of it is alive, or a socket or the
\* stream one of its threads created is open.
Holds(o) == \E t \in Threads : Obj(t) = o /\ (Alive(t) \/ Open(t))

\* C6: after AudioRelay.stop() has returned, nothing of the relay is held:
\* no thread alive, no socket and no stream open, whatever the worker was
\* doing when stop() was called.  Stated for a relay started once.
C6_NothingHeldAfterStop ==
    (wk[1].pc = "c_idle" /\ robj[1].stop /\ nthreads = 1) => ~Holds(1)

\* start() has been called on relay o with no stop() since, and its worker is
\* active.
Started(o) ==
    /\ robj[o].thread # None
    /\ ~robj[o].stop
    /\ Alive(robj[o].thread)

\* C7: AudioRelay.start() on a relay that is started and not stopped is a
\* no-op: no step creates a second worker thread, touches the first worker's
\* sockets or reports an error.
C7_SecondStartIsNoOp ==
    [][ (ClientStart /\ Started(1)) => (nthreads' = nthreads /\ rth' = rth) ]_vars

C9_StopNeverRaises ==
    \A w \in Workers :
       (wk[w].kind = "stop" /\ wk[w].pc = "w_finally") => ~wk[w].exc

\* C10: in every teardown (_stop_worker, the except block of _start_worker,
\* on_close) that has a bridge executable to run, _safe_stop issues the
\* force-stop: when it goes on to the relay, the last bridge command it has
\* issued is the force-stop, also when the remote "stop" or the removal of
\* the forward before it failed or timed out.
C10_ForceStopAlwaysIssued ==
    \A p \in Procs :
       (wk[p].pc = "ss_relay" /\ wk[p].td # "skipped") => wk[p].td = "force"

\* C11: a relay runtime error ends the session: once the worker of the
\* relay the controller refers to has reported an error and ended, and no
\* worker or callback of the controller is at work, the session is not in
\* the running state, so that a start() issued then begins a new session.
C11_RelayErrorEndsSession ==
    \A t \in Threads :
       ( /\ \A p \in Procs : wk[p].pc = "idle"
         /\ relay # None
         /\ Obj(t) = relay
         /\ rth[t].pc = "dead"
         /\ rth[t].status = "error" )
       => ~running

\* C12: a zero-length read ends the streaming phase with no error reported
\* and with a "disconnected" event delivered through the status callback: a
\* worker of a relay started once that has opened its stream and has ended
\* with no stop() called and no error reported (its read loop ended at
\* `if not chunk: break`) has "disconnected" as its last status event.
C12_ZeroReadReportsDisconnected ==
    \A t \in Threads :
       ( /\ nthreads = 1
         /\ rth[t].pc = "dead"
         /\ ~robj[Obj(t)].stop
         /\ robj[Obj(t)].stream = t
         /\ rth[t].status # "error" )
       => rth[t].status = "disconnected"

\* C13: the device pair of a running session does not change: while the
\* running flag is set and the controller refers to a relay it has started,
\* no step of the running program changes output_device or capture_device,
\* whatever refresh requests are made.
C13_DevicePairFixedWhileRunning ==
    [][ (running /\ relay # None /\ ~closed')
        => (output_device' = output_device /\ capture_device' = capture_device) ]_vars

\* C14: neither a failure to rename the capture endpoint nor a failure to make
\* it the default capture device is fatal to Start: no run of _start_worker is
\* aborted by one of these two steps.
C14_RenameAndDefaultNotFatal ==
    \A w \in Workers : wk[w].cause \notin {"rename", "default"}

\* C15: when the re-resolution at the head of Start fails on device discovery
\* (the enumeration raises), Start is aborted at the check that follows and no
\* relay is constructed, also when an earlier refresh had left a resolved
\* pair; stated for a Start that is the only operation at work.
C15_FailedDiscoveryAbortsStart ==
    [][ \A w \in Workers :
          ( /\ wk[w].pc = "s_check"
            /\ wk[w].disc = "raised"
            /\ \A v \in Workers \ {w} : wk[v].pc = "idle"
            /\ wk'[w].pc # "s_check"
            /\ ~closed' )
          => wk'[w].pc = "ss_bridge" ]_vars

\* C16: when the re-resolution at the head of Start found an empty device
\* list, so that no device, fallback included, could be chosen, Start is
\* aborted at the check that follows.
C16_EmptyListAbortsStart ==
    [][ \A w \in Workers :
          ( /\ wk[w].pc = "s_check"
            /\ wk[w].disc = "empty"
            /\ wk'[w].pc # "s_check"
            /\ ~closed' )
          => wk'[w].pc = "ss_bridge" ]_vars

\* The hints of a list that match some device, by position.
MatchingHints(devices, hints) ==
    { h \in 1..Len(hints) : HintMatches(devices, hints[h]) # {} }

\* C17: when some hint is a case-insensitive substring of some device name,
\* choose_preferred returns the first device, in list order, that matches the
\* earliest hint matching any device.
C17_EarliestHintFirstDevice ==
    (call.fn = "choose_preferred" /\ call.done /\ MatchingHints(call.devices, call.hints) # {})
    => call.result =
         call.devices[SetMin(HintMatches(call.devices,
                                         call.hints[SetMin(MatchingHints(call.devices, call.hints))]))]

\* With hints MICMIC, CABLE Output and no device named MICMIC the device that
\* contains "cable output" was chosen, though it is not the first of the list.
C17_Witness ==
    /\ call.fn = "choose_preferred"
    /\ call.done
    /\ call.hints = << TARGET_MIC_NAME, <<"C","A","B","L","E"," ","O","u","t","p","u","t">> >>
    /\ call.devices = << DevSpeakers, DevCableLower, DevCableOutput >>
    /\ call.result = DevCableLower

\* C18: choose_preferred returns the first device when the list is not empty
\* and no hint matches, the empty hint list included, and returns None exactly
\* when the device list is empty.
C18_FallbackAndNone ==
    (call.fn = "choose_preferred" /\ call.done)
    => /\ (Len(call.devices) > 0 /\ MatchingHints(call.devices, call.hints) = {})
            => call.result = call.devices[1]
       /\ (call.result = NoDevice) <=> (Len(call.devices) = 0)

\* A list of several devices none of which matches one of the hints given.
C18_Witness ==
    /\ call.fn = "choose_preferred"
    /\ call.done
    /\ Len(call.devices) > 1
    /\ Len(call.hints) > 0
    /\ MatchingHints(call.devices, call.hints) = {}
    /\ call.result = call.devices[1]

\* C19: get_connected_device returns the first entry whose state is "device";
\* without one it fails with the unauthorized error if an entry is
\* unauthorized, else with the offline error if an entry is offline, else with
\* the no-device error.
C19_ConnectedThenMostSpecificError ==
    (call.fn = "get_connected_device" /\ call.done)
    => LET devices == call.devices
           InState(s) == { i \in 1..Len(devices) : devices[i].state = s }
       IN IF InState("device") # {}
          THEN call.result = [dev |-> devices[SetMin(InState("device"))], error |-> "-"]
          ELSE /\ call.result.dev = NoConn
               /\ call.result.error =
                    IF InState("unauthorized") # {} THEN "unauthorized"
                    ELSE IF InState("offline") # {} THEN "offline"
                    ELSE "absent"

\* A list with an offline and an unauthorized entry and no connected one gave
\* the unauthorized error.
C19_Witness ==
    /\ call.fn = "get_connected_device"
    /\ call.done
    /\ \E i, j \in 1..Len(call.devices) :
          call.devices[i].state = "offline" /\ call.devices[j].state = "unauthorized" /\ i < j
    /\ \A i \in 1..Len(call.devices) : call.devices[i].state # "device"
    /\ call.result.error = "unauthorized"

\* C20: during one run of the relay at most one connection is accepted: from
\* the moment a run has accepted its peer, the relay's client is that
\* connection, and the bytes the run reads and writes to the output device
\* are that connection's.
C20_OnlyFirstPeerIsClient ==
    \A t \in Threads :
       rth[t].pc \in {"r_stream_open", "r_recv", "r_write"} => robj[Obj(t)].client = t

\* The left channel of a stereo byte sequence: bytes 1, 2 of every frame of 4.
LeftChannel(data) ==
    [i \in 1..(Len(data) \div 2) |-> data[4 * ((i - 1) \div 2) + ((i - 1) % 2) + 1]]

\* C21: of a chunk of odd length exactly the final byte is dropped and the
\* whole samples before it are written (5 bytes give 2 samples); a chunk of
\* 1 byte gives no write; a chunk of even length loses no byte.
C21_OddTrailingByteDropped ==
    call.fn = "read_loop" =>
      \A k \in 1..Len(call.writes) :
         LET w == call.writes[k]
             n == Len(w.chunk)
         IN /\ ~w.raised
            /\ w.wrote <=> (n >= 2)
            /\ Len(w.data) = 4 * (n \div 2)
            /\ LeftChannel(w.data) = SubSeq(w.chunk, 1, n - (n % 2))

\* A chunk of 5 bytes gave 2 stereo samples and a chunk of 1 byte no write.
C21_Witness ==
    /\ call.fn = "read_loop"
    /\ \E j, k \in 1..Len(call.writes) :
          /\ Len(call.writes[j].chunk) = 5
          /\ call.writes[j].wrote
          /\ Len(call.writes[j].data) = 8
          /\ Len(call.writes[k].chunk) = 1
          /\ ~call.writes[k].wrote

\* C22: a sample-aligned mono chunk s0 ... sn is written as s0 s0 ... sn sn:
\* every 16-bit sample twice, side by side, its value and the order kept; the
\* length written is twice the chunk's.
C22_MonoToStereoInterleaved ==
    call.fn = "read_loop" =>
      \A k \in 1..Len(call.writes) :
         LET w == call.writes[k]
         IN Len(w.chunk) % 2 = 0 =>
              /\ w.wrote
              /\ Len(w.data) = 2 * Len(w.chunk)
              /\ \A i \in 1..(Len(w.chunk) \div 2) :
                    /\ w.data[4 * i - 3] = w.chunk[2 * i - 1]
                    /\ w.data[4 * i - 2] = w.chunk[2 * i]
                    /\ w.data[4 * i - 1] = w.chunk[2 * i - 1]
                    /\ w.data[4 * i]     = w.chunk[2 * i]

\* A chunk of three different samples, one of them negative, was written.
C22_Witness ==
    /\ call.fn = "read_loop"
    /\ \E k \in 1..Len(call.writes) :
          /\ call.writes[k].chunk = << 1, 0, 0, 255, 255, 1 >>
          /\ call.writes[k].data = << 1, 0, 1, 0, 0, 255, 0, 255, 255, 1, 255, 1 >>

\* C24: however the producer's stream of whole samples is cut into chunks,
\* every sample written is a sample of the producer, at its place: the
\* samples of every chunk written begin on a sample boundary of the stream.
C24_SampleBoundariesKept ==
    (call.fn = "read_loop" /\ Len(call.stream) % 2 = 0) =>
      \A k \in 1..Len(call.writes) :
         LET w == call.writes[k]
         IN w.wrote =>
              /\ w.at % 2 = 0
              /\ LeftChannel(w.data) = SubSeq(call.stream, w.at + 1, w.at + Len(w.data) \div 2)

\* C23: once the stop flag of a relay is set, its worker thread eventually
\* terminates.
C23_StopFlagEndsWorker ==
    \A t \in Threads : (Alive(t) /\ robj[Obj(t)].stop) ~> ~Alive(t)

\* C25: a stop() never makes the worker report an error: no worker waiting in
\* accept or in recv delivers the "error" status while the stop flag of its
\* relay is set.
C25_StopGivesNoErrorEvent ==
    [][ \A t \in Threads :
          ( /\ rth[t].pc \in {"r_accept", "r_recv"}
            /\ robj[Obj(t)].stop
            /\ rth[t].status # "error" )
          => rth'[t].status # "error" ]_vars

\* C29: the output stream is opened only by a worker past its accept loop
\* with a connection accepted; a worker that finds the stop flag set after the
\* accept loop leaves for its finally block, and a worker that ends without
\* having opened the stream has not reported "stream active" and leaves the
\* relay's client socket and listening socket closed.
C29_NoStreamWithoutProducer ==
    [][ \A t \in Threads :
          /\ (rth'[t].stream = "open" /\ rth[t].stream # "open")
               => (rth[t].pc = "r_stream_open" /\ robj[Obj(t)].client # None
                   /\ rth[robj[Obj(t)].client].client = "open")
          /\ (rth[t].pc = "r_accepted" /\ robj[Obj(t)].stop /\ rth'[t].pc # "r_accepted")
               => rth'[t].pc = "r_finally"
          /\ (rth[t].pc = "r_finally" /\ rth'[t].pc = "dead" /\ rth[t].status = "waiting")
               => /\ rth'[t].stream = "none"
                  /\ rth'[t].status = "waiting"
                  /\ robj[Obj(t)].client # None => rth'[robj[Obj(t)].client].client = "none"
                  /\ rth'[robj[Obj(t)].server].server = "none" ]_vars

\* A worker that accepted a producer, found the stop flag set right after,
\* and has ended: no stream, its client socket closed.
C29_Witness ==
    \E t \in Threads :
       /\ rth[t].pc = "dead"
       /\ rth[t].status = "waiting"
       /\ robj[Obj(t)].client = t
       /\ robj[Obj(t)].stop
       /\ rth[t].client = "none"
       /\ rth[t].server = "none"
       /\ rth[t].stream = "none"

\* C26: whenever no start, stop or refresh worker and no window callback is
\* executing, a running flag that is False means that no relay is referenced
\* and no relay worker thread is alive.
C26_IdleNotRunningHasNoRelay ==
    ((\A p \in Procs : wk[p].pc = "idle") /\ ~running /\ ~closed)
    => /\ relay = None
       /\ \A t \in Threads : ~Alive(t)

\* C27: the busy flag is True for the whole execution of a start worker, from
\* its _set_busy(True) until its final _set_busy(False).
C27_BusyThroughoutStart ==
    \A w \in Workers :
       (wk[w].kind = "start" /\ wk[w].pc \notin {"idle", "s_lock"}) => busy

\* C28: under overlapping teardowns _safe_stop never calls stop() on a relay
\* reference that another teardown has cleared: a teardown that has passed
\* `if self._relay:` finds a relay when it makes the call.
C28_TeardownNeverCallsStopOnNone ==
    \A p \in Procs : wk[p].pc = "ss_call" => relay # None

====
